---- MODULE Spec2Model ----
(***************************************************************************)
(* Model of cliplet's clipboard history engine and daemon                  *)
(* (src/cliplet/core/clipboard.py, src/cliplet/core/daemon.py,             *)
(* src/cliplet/config/config_manager.py, src/cliplet/utils/pid.py).        *)
(*                                                                         *)
(* Text is a sequence of one-character strings.  A datetime is a record    *)
(* [sec, usec]; its ISO rendering is a sequence of tokens.  The history    *)
(* file holds the JSON value json.dump wrote (an array of objects), or is  *)
(* absent, or holds a truncated (unparseable) text, or a JSON value that   *)
(* another program wrote.  An exception is the name of its class.          *)
(***************************************************************************)
EXTENDS Integers, Sequences, FiniteSets, TLC

VARIABLES
    items,      \* ClipboardHistory.items: most-recent-first list of ClipboardItem
    max_items,  \* ClipboardHistory.max_items
    cfg,        \* ConfigManager._config (the keys the history engine reads)
    file,       \* the history file history.json
    failures,   \* number of failed history writes so far
    last,       \* what the last operation was and what it reported
    accepted,   \* reference list: accepted pairs, most recent acceptance first
    raised,     \* the exception the last call propagated ("none": it returned)
    view,       \* the list object the last get_items call returned
    last_content,      \* ClipboardMonitor.last_content
    monitoring,        \* ClipboardMonitor.monitoring
    callbacks,         \* ClipboardMonitor.callbacks
    exclude_passwords, \* the configuration key exclude_passwords
    handlers,   \* number of 'changed' handlers connected to the clipboard
    inflight,   \* number of read_text_async calls that have not completed
    idle,       \* callbacks GLib.idle_add has scheduled, oldest first
    running,    \* ClipboardDaemon.running
    run_pc,     \* where ClipboardDaemon.run is
    main_loop,  \* ClipboardDaemon.main_loop: none, created, running, quit, exited
    popup,      \* ClipboardDaemon.popup is not None
    hide_timer, \* ClipboardPopup.hide_timer: <<>> is None, <<t>> a source id
    timers,     \* the auto-hide timeout sources GLib holds pending
    next_source, \* the id GLib gives to the next source it attaches
    priming,    \* number of the popup's read_text_async calls not completed
    mech,       \* what each way of setting the clipboard would do now
    clip,       \* what the last set_clipboard_content call did
    marker,     \* the process marker file daemon.pid
    procs,      \* the processes that use the marker
    config_file, \* the configuration file config.json
    stopper     \* the stop_process call in progress

\* The state of the clipboard watcher, the event loop and the daemon.
watch ==
    <<last_content, monitoring, callbacks, exclude_passwords,
      handlers, inflight, idle, running>>

\* The daemon's run loop, the system clipboard, the process marker and the
\* configuration file.
life ==
    <<run_pc, main_loop, popup, hide_timer, timers, next_source, priming,
      mech, clip, marker, procs, config_file, stopper>>

vars ==
    <<items, max_items, cfg, file, failures, last, accepted, raised, view, watch,
      life>>

----------------------------------------------------------------------------
(* Bounds of the model *)

\* max_history_items takes the values MaxHistory-1 and MaxHistory
\* (the schema range [5,100] scaled down).
MaxHistory == 3
\* At most this many history writes fail in one behaviour.
MaxWriteFailures == 1
\* Length cap of a text preview (80 scaled down).
PreviewLimit == 3
\* max_text_length (the default 10000 scaled down).
MaxTextLength == 5
\* Texts shorter than this may be taken for passwords (50 scaled down).
PasswordLength == 4
\* At most this many callbacks are registered with the watcher.
MaxCallbacks == 2
\* At most this many 'changed' handlers are connected.
MaxHandlers == 2
\* At most this many clipboard reads are in flight.
MaxInflight == 2
\* At most this many scheduled callbacks wait in the event loop.
MaxIdle == 2
\* Number of processes that may use the process marker.
MaxProcs == 2
\* Largest timeout of stop_process, in seconds.
MaxTimeout == 2
\* Number of timeout sources GLib attaches for the popup.
MaxSources == 2
\* At most this many reads of the popup are in flight.
MaxPriming == 1

----------------------------------------------------------------------------
(* Program constants *)

\* min_text_length: the default and the schema minimum
DefaultMinTextLength == 1

----------------------------------------------------------------------------
(* Text *)

Whitespace == {" ", "\t", "\n"}

Rep(ch, n) == [i \in 1..n |-> ch]

\* str.strip() leaves nothing: every character is whitespace.
StripIsEmpty(s) == \A i \in 1..Len(s) : s[i] \in Whitespace

\* Length of the run of non-whitespace characters of s starting at i.
RECURSIVE WordLen(_, _)
WordLen(s, i) ==
    IF i > Len(s) \/ s[i] \in Whitespace THEN 0 ELSE 1 + WordLen(s, i + 1)

\* ' '.join(s[i:].split()), given whether a word was already emitted.
RECURSIVE JoinSplitFrom(_, _, _)
JoinSplitFrom(s, i, started) ==
    IF i > Len(s) THEN <<>>
    ELSE IF s[i] \in Whitespace THEN JoinSplitFrom(s, i + 1, started)
    ELSE LET n == WordLen(s, i)
         IN  (IF started THEN <<" ">> ELSE <<>>)
               \o SubSeq(s, i, i + n - 1)
               \o JoinSplitFrom(s, i + n, TRUE)

JoinSplit(s) == JoinSplitFrom(s, 1, FALSE)

----------------------------------------------------------------------------
(* Inputs *)

TextA    == <<"a">>
TextPw   == <<"p", "!">>
TextLong == <<"b", " ", " ", "x", "x">>
TextEmpty == <<>>
TextBlank == <<" ", "\t">>
TextHuge == Rep("y", MaxTextLength + 1)

Contents == {TextA, TextPw, TextLong, TextEmpty, TextBlank, TextHuge}

\* add_item's (content, content_type) arguments
Inputs ==
    {<<c, "text">> : c \in Contents} \cup {<<TextA, "image">>}

\* What datetime.now() may return: an instant on a whole second and a later
\* one with microseconds.  The clock is not assumed monotonic.
Instants == {[sec |-> 0, usec |-> 0], [sec |-> 1, usec |-> 5]}

Digits == <<"0", "1", "2", "3", "4", "5", "6", "7", "8", "9">>
DigitOf(n) == Digits[n + 1]
ValueOf(d) == CHOOSE n \in 0..9 : Digits[n + 1] = d

\* Valid configurations (what ConfigManager.load accepts).
Config(n, lo) ==
    [max_history_items |-> n, min_text_length |-> lo, max_text_length |-> MaxTextLength]

Configs ==
    {Config(MaxHistory - 1, DefaultMinTextLength),
     Config(MaxHistory, DefaultMinTextLength),
     Config(MaxHistory, DefaultMinTextLength + 1)}

\* Outcome of the write in save_history.
WriteOutcomes == {"ok", "open_failed", "partial"}
WriteFailures == WriteOutcomes \ {"ok"}

----------------------------------------------------------------------------
(* ClipboardItem *)

\* datetime.isoformat(): the microseconds are omitted when they are zero.
IsoFormat(ts) ==
    IF ts.usec = 0 THEN <<DigitOf(ts.sec)>>
    ELSE <<DigitOf(ts.sec), ".", DigitOf(ts.usec)>>

\* Variant: the fractional part is dropped.
FromIsoFormatWholeSeconds(s) == [sec |-> ValueOf(s[1]), usec |-> 0]

\* datetime.fromisoformat()
FromIsoFormat(s) ==
    IF Len(s) = 1 THEN [sec |-> ValueOf(s[1]), usec |-> 0]
    ELSE [sec |-> ValueOf(s[1]), usec |-> ValueOf(s[3])]

\* str.title() of a content type
Title(ctype) == IF ctype = "image" THEN "Image" ELSE "Text"

\* ClipboardItem._generate_preview
GeneratePreview(content, ctype, ts) ==
    IF ctype = "text"
    THEN LET preview == JoinSplit(content)
         IN  IF Len(preview) > PreviewLimit
             THEN SubSeq(preview, 1, PreviewLimit) \o <<".", ".", ".">>
             ELSE preview
    ELSE <<"[", Title(ctype), " - ", DigitOf(ts.sec), "]">>

\* ClipboardItem.__init__ with an explicit timestamp
ClipboardItem(content, ctype, ts) ==
    [content      |-> content,
     content_type |-> ctype,
     timestamp    |-> ts,
     preview      |-> GeneratePreview(content, ctype, ts)]

\* ClipboardItem.to_dict
ToDict(item) ==
    [content      |-> item.content,
     content_type |-> item.content_type,
     timestamp    |-> IsoFormat(item.timestamp),
     preview      |-> item.preview]

\* ClipboardItem.from_dict
FromDict(data) ==
    ClipboardItem(data.content, data.content_type, FromIsoFormat(data.timestamp))

----------------------------------------------------------------------------
(* The history file *)

NoFile      == [exists |-> FALSE, valid |-> FALSE, data |-> <<>>]
CorruptFile == [exists |-> TRUE,  valid |-> FALSE, data |-> <<>>]
JsonFile(d) == [exists |-> TRUE,  valid |-> TRUE,  data |-> d]

\* data = [item.to_dict() for item in self.items]
Encode(its) == [i \in 1..Len(its) |-> ToDict(its[i])]

\* [ClipboardItem.from_dict(item) for item in data]
Decode(data) == [i \in 1..Len(data) |-> FromDict(data[i])]

\* Variant: the newest entry is left out of the written list.
SaveHistoryWithoutNewest(its, f, w) ==
    CASE w = "ok"          -> JsonFile(Encode(IF its = <<>> THEN its ELSE Tail(its)))
      [] w = "open_failed" -> f
      [] w = "partial"     -> CorruptFile

\* ClipboardHistory.save_history: the file it leaves for a write outcome.
SaveHistory(its, f, w) ==
    CASE w = "ok"          -> JsonFile(Encode(its))
      [] w = "open_failed" -> f
      [] w = "partial"     -> CorruptFile

\* What datetime.fromisoformat() parses.
IsIsoFormat(s) ==
    /\ Len(s) \in {1, 3}
    /\ \E n \in 0..9 : s[1] = DigitOf(n)
    /\ Len(s) = 3 => (s[2] = "." /\ \E n \in 0..9 : s[3] = DigitOf(n))

\* Elements of a JSON array that save_history never writes: a value that is
\* not an object, an object without 'timestamp', an object whose timestamp
\* is not ISO text.
NotAnObject == [scalar |-> "k"]
EntryWithoutTimestamp ==
    [content |-> TextA, content_type |-> "text", preview |-> TextA]
EntryBadTimestamp ==
    [content |-> TextA, content_type |-> "text", timestamp |-> <<"x">>,
     preview |-> TextA]

IsObject(v) == "scalar" \notin DOMAIN v

\* ClipboardItem.from_dict on one element: the exception it raises.
FromDictException(v) ==
    IF ~IsObject(v) THEN "TypeError"
    ELSE IF "timestamp" \notin DOMAIN v THEN "KeyError"
    ELSE IF ~IsIsoFormat(v.timestamp) THEN "ValueError"
    ELSE IF {"content", "content_type"} \subseteq DOMAIN v THEN "none"
    ELSE "KeyError"

\* The list comprehension stops at the first element that raises.
DecodeException(data) ==
    IF \A i \in 1..Len(data) : FromDictException(data[i]) = "none" THEN "none"
    ELSE LET i == CHOOSE k \in 1..Len(data) :
                    /\ FromDictException(data[k]) # "none"
                    /\ \A j \in 1..(k - 1) : FromDictException(data[j]) = "none"
         IN  FromDictException(data[i])

\* Outcome of opening and reading the file in load_history.
ReadOutcomes == {"ok", "io_error"}

\* What the try block of load_history raises.
LoadException(f, r) ==
    IF r # "ok" THEN "OSError"
    ELSE IF ~f.valid THEN "JSONDecodeError"
    ELSE DecodeException(f.data)

\* except (json.JSONDecodeError, IOError, KeyError); IOError is OSError.
LoadHandlers == {"JSONDecodeError", "OSError", "KeyError"}

\* ClipboardHistory.load_history: the items it leaves.
LoadedItemsOn(its, f, r) ==
    IF f.exists
    THEN LET e == LoadException(f, r)
         IN  IF e = "none" THEN Decode(f.data)
             ELSE IF e \in LoadHandlers THEN <<>>
             ELSE its
    ELSE its

\* ClipboardHistory.load_history when the file can be read.
LoadedItems(its, f) == LoadedItemsOn(its, f, "ok")

\* ClipboardHistory.load_history: the exception it propagates.
LoadRaised(f, r) ==
    IF f.exists /\ LoadException(f, r) \notin LoadHandlers
    THEN LoadException(f, r) ELSE "none"

\* What the try block of save_history raises.
SaveException(w) == IF w = "ok" THEN "none" ELSE "OSError"

\* Variant: save_history has no handler.
SaveHandlersNone == {}

\* except IOError
SaveHandlers == {"OSError"}

\* ClipboardHistory.save_history: the exception it propagates.
SaveRaised(w) ==
    IF SaveException(w) \in SaveHandlers THEN "none" ELSE SaveException(w)

----------------------------------------------------------------------------
(* ClipboardHistory.add_item *)

\* Variant: the all-whitespace test is missing.
RejectedWithoutStrip(content, c) ==
    \/ Len(content) = 0
    \/ Len(content) < c.min_text_length
    \/ Len(content) > c.max_text_length

\* The validation at the head of add_item.
Rejected(content, c) ==
    \/ Len(content) = 0
    \/ StripIsEmpty(content)
    \/ Len(content) < c.min_text_length
    \/ Len(content) > c.max_text_length

Matches(item, content, ctype) ==
    item.content = content /\ item.content_type = ctype

\* Index of the first entry with the pair, 0 when there is none.
FirstMatch(its, content, ctype) ==
    IF \E i \in 1..Len(its) : Matches(its[i], content, ctype)
    THEN CHOOSE i \in 1..Len(its) :
            /\ Matches(its[i], content, ctype)
            /\ \A j \in 1..(i - 1) : ~Matches(its[j], content, ctype)
    ELSE 0

\* Variant: the pop removes the last entry, whatever the index.
PopLast(its, i) == SubSeq(its, 1, Len(its) - 1)

\* self.items.pop(i)
Pop(its, i) == SubSeq(its, 1, i - 1) \o SubSeq(its, i + 1, Len(its))

\* Variant: the duplicate scan is missing.
RemoveDuplicateNever(its, content, ctype) == its

\* The duplicate scan: the first match is removed.
RemoveDuplicate(its, content, ctype) ==
    LET i == FirstMatch(its, content, ctype)
    IN  IF i = 0 THEN its ELSE Pop(its, i)

\* Variant: the history is never trimmed.
TrimNever(its, n) == its

\* Variant: the slice keeps the tail instead of the head.
TrimFromHead(its, n) ==
    IF Len(its) > n THEN SubSeq(its, Len(its) - n + 1, Len(its)) ELSE its

\* self.items = self.items[:self.max_items]
Trim(its, n) ==
    IF Len(its) > n THEN SubSeq(its, 1, n) ELSE its

\* The items add_item leaves for accepted content.
AddedItems(its, content, ctype, ts, n) ==
    Trim(<<ClipboardItem(content, ctype, ts)>> \o RemoveDuplicate(its, content, ctype), n)

NoRet == <<>>
Ret(item) == <<item>>

Report(op, ret, saved, moved, trimmed) ==
    [op |-> op, ret |-> ret, saved |-> saved, moved |-> moved, trimmed |-> trimmed]

WriteAllowed(w) == w = "ok" \/ failures < MaxWriteFailures
FailuresAfter(w) == IF w = "ok" THEN failures ELSE failures + 1

AddItem(content, ctype, now, w) ==
    IF Rejected(content, cfg)
    THEN /\ w = "ok"
         /\ last' = Report("add_item", NoRet, FALSE, FALSE, 0)
         /\ raised' = "none"
         /\ UNCHANGED <<items, max_items, cfg, file, failures>>
    ELSE LET ts       == now
             new_item == ClipboardItem(content, ctype, ts)
             grown    == <<new_item>> \o RemoveDuplicate(items, content, ctype)
         IN  /\ WriteAllowed(w)
             /\ items' = AddedItems(items, content, ctype, ts, max_items)
             /\ file' = SaveHistory(items', file, w)
             /\ failures' = FailuresAfter(w)
             /\ raised' = SaveRaised(w)
             /\ last' = Report("add_item",
                               IF raised' = "none" THEN Ret(new_item) ELSE NoRet,
                               w = "ok",
                               FirstMatch(items, content, ctype) # 0,
                               IF Len(grown) > max_items
                               THEN Len(grown) - max_items ELSE 0)
             /\ UNCHANGED <<max_items, cfg>>

\* ClipboardHistory.clear_history
ClearHistory(w) ==
    /\ WriteAllowed(w)
    /\ items' = <<>>
    /\ file' = SaveHistory(items', file, w)
    /\ failures' = FailuresAfter(w)
    /\ raised' = SaveRaised(w)
    /\ last' = Report("clear_history", NoRet, w = "ok", FALSE, 0)
    /\ UNCHANGED <<max_items, cfg>>

\* ClipboardHistory.load_history (ClipboardPopup.refresh_items calls it)
LoadHistory(r) ==
    /\ items' = LoadedItemsOn(items, file, r)
    /\ raised' = LoadRaised(file, r)
    /\ last' = Report("load_history", NoRet, FALSE, FALSE, 0)
    /\ UNCHANGED <<max_items, cfg, file, failures>>

\* ConfigManager.load: the configuration after reading a configuration file
\* (loaded is <<>> for a file that is rejected, <<c>> for a valid file).
ConfigLoad(c, loaded) == IF loaded = <<>> THEN c ELSE loaded[1]

ConfigFiles == {<<>>} \cup {<<c>> : c \in Configs}

\* ClipboardDaemon.reload_config
ReloadConfig(loaded) ==
    /\ cfg' = ConfigLoad(cfg, loaded)
    /\ max_items' = cfg'.max_history_items
    /\ raised' = "none"
    /\ last' = Report("reload_config", NoRet, FALSE, FALSE, 0)
    /\ UNCHANGED <<items, file, failures>>

\* Variant: the daemon's in-memory list is emptied as well.
ConfigClearHistoryEmptiesStore ==
    /\ file.exists
    /\ file' = NoFile
    /\ items' = <<>>
    /\ raised' = "none"
    /\ last' = Report("config_clear_history", NoRet, FALSE, FALSE, 0)
    /\ UNCHANGED <<max_items, cfg, failures>>

\* ConfigManager.clear_history (the settings window): unlinks the file.
ConfigClearHistory ==
    /\ file.exists
    /\ file' = NoFile
    /\ raised' = "none"
    /\ last' = Report("config_clear_history", NoRet, FALSE, FALSE, 0)
    /\ UNCHANGED <<items, max_items, cfg, failures>>

\* The process ends and a new daemon is constructed:
\* ClipboardHistory.__init__ (items = [], max_items from the config, load_history).
Restart(c) ==
    /\ cfg' = c
    /\ max_items' = c.max_history_items
    /\ items' = LoadedItems(<<>>, file)
    /\ raised' = LoadRaised(file, "ok")
    /\ last' = Report("init", NoRet, FALSE, FALSE, 0)
    /\ UNCHANGED <<file, failures>>

----------------------------------------------------------------------------
(* ClipboardMonitor and ClipboardDaemon *)

PasswordSymbols == {"!", "@", "#", "$", "%", "^", "&", "*"}

\* A text of PasswordLength symbols: too long to be taken for a password.
TextHash == Rep("#", PasswordLength)

\* What the clipboard may hold when a read completes.
ClipboardTexts == {TextEmpty, TextBlank, TextA, TextPw, TextHash}

\* Result of read_text_finish: it raises, or returns the text (empty: no text).
ReadFailed == [ok |-> FALSE, content |-> <<>>]
ReadText(c) == [ok |-> TRUE, content |-> c]
ReadResults == {ReadFailed} \cup {ReadText(c) : c \in ClipboardTexts}

HasPasswordSymbol(content) ==
    \E i \in 1..Len(content) : content[i] \in PasswordSymbols

\* Variant: nothing is ever excluded.
ShouldExcludeNever(content, enabled) == FALSE

\* ClipboardMonitor._should_exclude_content
ShouldExcludeContent(content, enabled) ==
    enabled /\ Len(content) < PasswordLength /\ HasPasswordSymbol(content)

\* Variant: the comparison with last_content is missing.
IsNewContentAlways(res, lc) == res.ok /\ res.content # <<>>

\* `if content and content != self.last_content` after a read that succeeded
IsNewContent(res, lc) ==
    res.ok /\ res.content # <<>> /\ res.content # lc

\* Variant: only the first callback is scheduled.
ScheduledFirstOnly(cbs, item) ==
    IF cbs = <<>> THEN <<>> ELSE <<<<cbs[1], item>>>>

\* for callback in self.callbacks: GLib.idle_add(callback, item)
Scheduled(cbs, item) == [i \in 1..Len(cbs) |-> <<cbs[i], item>>]

\* ClipboardMonitor.add_callback
AddCallback(cb) ==
    /\ Len(callbacks) < MaxCallbacks
    /\ callbacks' = Append(callbacks, cb)
    /\ UNCHANGED <<last_content, monitoring, exclude_passwords, handlers,
                   inflight, idle, running>>

\* ClipboardMonitor.start_monitoring: one more 'changed' handler is connected
\* and the priming read is issued.
StartMonitoring ==
    /\ handlers < MaxHandlers
    /\ inflight < MaxInflight
    /\ monitoring' = TRUE
    /\ handlers' = handlers + 1
    /\ inflight' = inflight + 1
    /\ UNCHANGED <<last_content, callbacks, exclude_passwords, idle>>

\* ClipboardMonitor.stop_monitoring
StopMonitoring ==
    /\ monitoring' = FALSE
    /\ UNCHANGED <<last_content, callbacks, exclude_passwords, handlers,
                   inflight, idle>>

\* Variant: the notification handler clears last_content.
ClipboardChangedResetsLast ==
    /\ handlers > 0
    /\ inflight' = IF monitoring THEN inflight + handlers ELSE inflight
    /\ inflight' <= MaxInflight
    /\ last_content' = <<>>
    /\ UNCHANGED <<monitoring, callbacks, exclude_passwords,
                   handlers, idle, running>>

\* The clipboard emits 'changed': every connected handler runs
\* ClipboardMonitor._on_clipboard_changed.
ClipboardChanged ==
    /\ handlers > 0
    /\ inflight' = IF monitoring THEN inflight + handlers ELSE inflight
    /\ inflight' <= MaxInflight
    /\ UNCHANGED <<last_content, monitoring, callbacks, exclude_passwords,
                   handlers, idle, running>>

\* ClipboardMonitor._on_clipboard_text_ready: the completion of one read.
TextReady(res, now) ==
    /\ inflight > 0
    /\ inflight' = inflight - 1
    /\ UNCHANGED <<monitoring, callbacks, exclude_passwords, handlers, running>>
    /\ IF IsNewContent(res, last_content)
          /\ ~ShouldExcludeContent(res.content, exclude_passwords)
       THEN /\ last_content' = res.content
            /\ AddItem(res.content, "text", now, "ok")
            /\ idle' = IF last'.ret = NoRet THEN idle
                       ELSE idle \o Scheduled(callbacks, last'.ret[1])
            /\ Len(idle') <= MaxIdle
       ELSE /\ last' = Report("text_ready", NoRet, FALSE, FALSE, 0)
            /\ raised' = "none"
            /\ UNCHANGED <<items, max_items, cfg, file, failures,
                           last_content, idle>>

\* The event loop runs the oldest scheduled callback; it returns None, so
\* GLib removes the idle source.
InvokeIdle ==
    /\ idle # <<>>
    /\ idle' = Tail(idle)
    /\ last' = Report("callback", Ret(idle[1][2]), FALSE, FALSE, 0)
    /\ raised' = "none"
    /\ items' = IF idle[1][1] = "refresh_items" THEN LoadedItems(items, file)
                                                ELSE items
    /\ UNCHANGED <<max_items, cfg, file, failures, last_content,
                   monitoring, callbacks, exclude_passwords, handlers,
                   inflight, running>>

\* ConfigManager.load changes exclude_passwords.
SetExcludePasswords(b) ==
    /\ exclude_passwords' = b
    /\ UNCHANGED <<last_content, monitoring, callbacks, handlers, inflight,
                   idle, running>>


\* Variant: start() without the check of running.
DaemonStartUnguarded ==
    /\ StartMonitoring
    /\ running' = TRUE

\* ClipboardDaemon.start
DaemonStart ==
    IF running
    THEN UNCHANGED watch
    ELSE /\ StartMonitoring
         /\ running' = TRUE

\* ClipboardDaemon.stop
DaemonStop ==
    IF ~running
    THEN UNCHANGED watch
    ELSE /\ running' = FALSE
         /\ StopMonitoring

\* A call that leaves the history store alone.
StoreUntouched(op) ==
    /\ last' = Report(op, NoRet, FALSE, FALSE, 0)
    /\ raised' = "none"
    /\ UNCHANGED <<items, max_items, cfg, file, failures>>

----------------------------------------------------------------------------
(* The daemon's run loop, clipboard writes and the process marker *)

\* No set_clipboard_content call was made yet.
NoClip == [text |-> <<>>, tried |-> <<>>, logged |-> FALSE]

\* Process identifiers.
Pids == 1..MaxProcs

\* The marker file does not exist (get_pid returns None).
NoMarker == 0

\* A process that has not touched the marker.
NoProc == [pc |-> "idle", seen |-> NoMarker, created |-> FALSE]

\* No stop_process call was made yet.
NoStopper ==
    [pc |-> "idle", pid |-> NoMarker, timeout |-> 0, polls |-> 0,
     term |-> FALSE, kill |-> FALSE, ret |-> FALSE]


\* The schema's range of max_history_items ([5, 100] in the program).
SchemaMin == MaxHistory - 1
SchemaMax == MaxHistory

\* JSON values a configuration file may give to max_history_items; Missing:
\* the key is not in the file.  A float is n + 1/2 or Infinity.
\* Json(type, n): an integer n ("int"), n + 1/2 ("float"), Infinity, the
\* string of the digits of n ("str"), a string that is no number ("word"),
\* true ("bool", n = 1) or null.
Json(type, n) == [type |-> type, n |-> n]
Missing == Json("missing", 0)

JsonValues ==
    {Json("int", n) : n \in (SchemaMin - 1)..(SchemaMax + 1)}
        \cup {Json("float", SchemaMin - 1), Json("float", SchemaMax),
              Json("infinity", 0), Json("str", SchemaMin), Json("word", 0),
              Json("bool", 1), Json("null", 0)}

\* Variant: the range of the schema is not enforced.
ValidateValueAnyNumber(v) ==
    IF v.type \in {"int", "bool", "float", "str"}
    THEN [exc |-> "none", n |-> v.n]
    ELSE IF v.type = "infinity"
    THEN [exc |-> "OverflowError", n |-> 0]
    ELSE [exc |-> "ConfigValidationError", n |-> 0]

\* ConfigManager._validate_value for max_history_items (type int, min, max).
\* A bool is an int for isinstance; int() truncates a float, parses a string
\* of digits, raises ValueError or TypeError for a word, null (wrapped in
\* ConfigValidationError) and OverflowError for Infinity (not wrapped).
ValidateValue(v) ==
    IF v.type \in {"int", "bool", "float", "str"}
    THEN IF v.n < SchemaMin \/ v.n > SchemaMax
         THEN [exc |-> "ConfigValidationError", n |-> 0]
         ELSE [exc |-> "none", n |-> v.n]
    ELSE IF v.type = "infinity"
    THEN [exc |-> "OverflowError", n |-> 0]
    ELSE [exc |-> "ConfigValidationError", n |-> 0]

\* The configuration file: absent, not JSON, not UTF-8, a JSON array, or a
\* JSON object giving max_history_items and popup_position (a key with
\* choices: "missing", "valid" or "bad").
ConfigFile(kind, v, position) ==
    [kind |-> kind, max_history_items |-> v, popup_position |-> position]

NoConfigFile == ConfigFile("absent", Missing, "missing")

ConfigObject(v, position) == ConfigFile("object", v, position)

RawConfigFiles ==
    {NoConfigFile,
     ConfigFile("unparseable", Missing, "missing"),
     ConfigFile("undecodable", Missing, "missing"),
     ConfigFile("array", Missing, "missing")}
        \cup {ConfigObject(v, "missing") : v \in JsonValues}
        \cup {ConfigObject(Missing, "valid"),
              ConfigObject(Json("int", SchemaMin), "bad"),
              ConfigObject(Json("int", SchemaMax), "valid")}

\* ConfigManager.save: json.dump of the configuration.
SavedConfigFile(c) == ConfigObject(Json("int", c.max_history_items), "valid")

\* ConfigManager._validate_config: keys are validated in the file's order
\* (max_history_items before popup_position), the first failure ends it.
ValidateConfig(f) ==
    LET r == IF f.max_history_items = Missing
             THEN [exc |-> "none", n |-> 0]
             ELSE ValidateValue(f.max_history_items)
    IN  IF r.exc # "none" THEN r
        ELSE IF f.popup_position = "bad"
        THEN [exc |-> "ConfigValidationError", n |-> 0]
        ELSE r

\* ConfigManager.load on file f with configuration c: the configuration
\* afterwards, the file afterwards (save() creates a missing file) and the
\* exception that leaves load ("none": load caught it or there was none).
\* json.load raises JSONDecodeError (caught), UnicodeDecodeError (not caught);
\* a JSON array has no items() (AttributeError, not caught).  The update is
\* made only after every key has been validated.
LoadConfigFile(c, f) ==
    IF f.kind = "absent"
    THEN [cfg |-> c, file |-> SavedConfigFile(c), exc |-> "none"]
    ELSE IF f.kind = "unparseable"
    THEN [cfg |-> c, file |-> f, exc |-> "none"]
    ELSE IF f.kind = "undecodable"
    THEN [cfg |-> c, file |-> f, exc |-> "UnicodeDecodeError"]
    ELSE IF f.kind = "array"
    THEN [cfg |-> c, file |-> f, exc |-> "AttributeError"]
    ELSE LET r == ValidateConfig(f)
         IN  IF r.exc = "ConfigValidationError"
             THEN [cfg |-> c, file |-> f, exc |-> "none"]
             ELSE IF r.exc # "none"
             THEN [cfg |-> c, file |-> f, exc |-> r.exc]
             ELSE IF f.max_history_items = Missing
             THEN [cfg |-> c, file |-> f, exc |-> "none"]
             ELSE [cfg  |-> [c EXCEPT !.max_history_items = r.n],
                   file |-> f, exc |-> "none"]

\* An invalid file: unparseable, of the wrong shape, or with a value of the
\* wrong type, out of range or outside the choices.
InvalidConfigFile(f) ==
    \/ f.kind \in {"unparseable", "undecodable", "array"}
    \/ /\ f.kind = "object"
       /\ \/ f.max_history_items.type \notin {"int", "missing"}
          \/ /\ f.max_history_items.type = "int"
             /\ f.max_history_items.n \notin SchemaMin..SchemaMax
          \/ f.popup_position = "bad"

\* ClipboardDaemon.__init__ (main_loop = None, popup = None), a desktop
\* where the GTK clipboard works, no marker file, and the configuration file
\* ConfigManager.__init__ wrote.
LifeInit ==
    /\ run_pc = "idle"
    /\ main_loop = "none"
    /\ popup = FALSE
    /\ hide_timer = <<>>
    /\ timers = {}
    /\ next_source = 1
    /\ priming = 0
    /\ mech = [gtk |-> "ok", wl |-> "absent", xclip |-> "absent"]
    /\ clip = NoClip
    /\ marker = NoMarker
    /\ procs = [p \in Pids |-> NoProc]
    /\ stopper = NoStopper
    /\ config_file = SavedConfigFile(cfg)

popupVars == <<popup, hide_timer, timers, next_source, priming>>
loopVars == <<run_pc, main_loop, popupVars>>
clipVars == <<mech, clip>>
markerVars == <<marker, procs, stopper>>
confVars == <<config_file>>


\* Variant: reload_config that does not hand the new limit to the store.
ReloadConfigFileKeepsLimit ==
    LET r == LoadConfigFile(cfg, config_file)
    IN  /\ cfg' = r.cfg
        /\ config_file' = r.file
        /\ UNCHANGED max_items
        /\ raised' = "none"
        /\ last' = Report("reload_config", NoRet, FALSE, FALSE, 0)
        /\ UNCHANGED <<items, file, failures, watch, loopVars>>

\* ClipboardDaemon.reload_config, the handler of SIGHUP: config.load() and
\* then history.max_items = config.get('max_history_items'); an exception
\* that leaves load skips the assignment and is logged.
ReloadConfigFile ==
    LET r == LoadConfigFile(cfg, config_file)
    IN  /\ cfg' = r.cfg
        /\ config_file' = r.file
        /\ max_items' = IF r.exc = "none" THEN r.cfg.max_history_items
                                          ELSE max_items
        /\ raised' = "none"
        /\ last' = Report("reload_config", NoRet, FALSE, FALSE, 0)
        /\ UNCHANGED <<items, file, failures, watch, loopVars>>


\* A process of another user that exists throughout: os.kill on it raises
\* PermissionError.
ForeignPid == MaxProcs + 1

\* A marker file whose text is no integer.
Garbage == MaxProcs + 2

\* PidManager.get_pid: the identifier in the marker, NoMarker (None) when
\* the file does not exist or int() rejects its text.
GetPid(m) == IF m = Garbage THEN NoMarker ELSE m

\* The process exists.
Exists(pid) ==
    \/ pid = ForeignPid
    \/ pid \in Pids /\ procs[pid].pc \in {"checked", "marked", "running"}

\* os.kill(pid, sig) returns normally: the process exists and belongs to the
\* caller's user.  Otherwise it raises ProcessLookupError or PermissionError,
\* both of them OSError.
Live(pid) == pid \in Pids /\ procs[pid].pc \in {"checked", "marked", "running"}

\* PidManager.is_running on marker m: what it returns and the marker
\* afterwards.  Any OSError from the probe counts as "process gone": the
\* marker is removed and False returned.
IsRunning(m) ==
    LET pid == GetPid(m)
    IN  [ret    |-> pid # NoMarker /\ Live(pid),
         marker |-> IF pid = NoMarker \/ Live(pid) THEN m ELSE NoMarker]

\* PidManager.create up to the end of is_running(): a True result refuses
\* the caller with PidManagerError (a process that holds the marker goes
\* on); otherwise the caller goes on to the write.
CreateCheck(p) ==
    /\ procs[p].pc \in {"idle", "marked"}
    /\ marker' = IsRunning(marker).marker
    /\ procs' = [procs EXCEPT
                    ![p].seen = GetPid(marker),
                    ![p].pc = IF ~IsRunning(marker).ret THEN "checked"
                              ELSE IF @ = "idle" THEN "refused" ELSE @]

\* A call of PidManager.is_running by any program.
IsRunningCall ==
    /\ marker' = IsRunning(marker).marker
    /\ UNCHANGED procs

\* PidManager.create, the write that follows a passed check:
\* open(pid_file, 'w') and write(str(os.getpid())).
CreateWrite(p) ==
    /\ procs[p].pc = "checked"
    /\ marker' = p
    /\ procs' = [procs EXCEPT ![p].pc = "marked", ![p].created = TRUE]

\* main(): ConfigManager(), ClipboardDaemon(config) and daemon.run(); the
\* process marker is neither checked nor written.  The process may have
\* called create() before ("marked") or not ("idle").
MainRuns(p) ==
    /\ procs[p].pc \in {"idle", "marked"}
    /\ procs' = [procs EXCEPT ![p].pc = "running"]
    /\ UNCHANGED marker

\* A terminate or interrupt signal is handled, run() returns and main()
\* ends; stop() and run() leave the marker alone.
MainReturns(p) ==
    /\ procs[p].pc = "running"
    /\ procs' = [procs EXCEPT ![p].pc = "stopped"]
    /\ UNCHANGED marker

\* The process is killed.
ProcessKilled(p) ==
    /\ procs[p].pc = "running"
    /\ procs' = [procs EXCEPT ![p].pc = "dead"]
    /\ UNCHANGED marker


\* stop_process returns r; is_running has been called on the marker.
StopReturns(r) ==
    /\ stopper' = [stopper EXCEPT !.pc = "done", !.ret = r]
    /\ marker' = IsRunning(marker).marker
    /\ UNCHANGED procs

\* PidManager.stop_process(timeout) up to the first poll: get_pid, then
\* os.kill(pid, SIGTERM).  No identifier: True is returned.  An OSError of
\* the kill leads to `return not self.is_running()`.
StopBegin(timeout) ==
    /\ stopper.pc = "idle"
    /\ LET pid == GetPid(marker)
       IN  IF pid = NoMarker
           THEN /\ stopper' = [stopper EXCEPT !.pc = "done", !.ret = TRUE,
                                              !.timeout = timeout]
                /\ UNCHANGED <<marker, procs>>
           ELSE IF Live(pid)
           THEN /\ stopper' = [stopper EXCEPT !.pc = "polling", !.pid = pid,
                                              !.timeout = timeout,
                                              !.term = TRUE]
                /\ UNCHANGED <<marker, procs>>
           ELSE /\ stopper' = [stopper EXCEPT !.pc = "done", !.pid = pid,
                                              !.timeout = timeout,
                                              !.ret = ~IsRunning(marker).ret]
                /\ marker' = IsRunning(marker).marker
                /\ UNCHANGED procs

\* Variant: the forced request is sent as soon as a poll sees the process.
StopPollImpatient ==
    /\ stopper.pc = "polling"
    /\ stopper.polls < stopper.timeout
    /\ IF ~IsRunning(marker).ret
       THEN StopReturns(TRUE)
       ELSE /\ stopper' = [stopper EXCEPT !.pc = "waiting", !.kill = TRUE]
            /\ UNCHANGED <<marker, procs>>

\* One round of the loop `for _ in range(timeout)`: is_running(), then
\* return True or sleep one second.
StopPoll ==
    /\ stopper.pc = "polling"
    /\ stopper.polls < stopper.timeout
    /\ IF ~IsRunning(marker).ret
       THEN StopReturns(TRUE)
       ELSE /\ stopper' = [stopper EXCEPT !.polls = @ + 1]
            /\ UNCHANGED <<marker, procs>>

\* After the loop: `if self.is_running(): os.kill(pid, SIGKILL)`, else
\* `return not self.is_running()`; an OSError of the kill leads there too.
StopAfterPolls ==
    /\ stopper.pc = "polling"
    /\ stopper.polls = stopper.timeout
    /\ IF IsRunning(marker).ret /\ Live(stopper.pid)
       THEN /\ stopper' = [stopper EXCEPT !.pc = "waiting", !.kill = TRUE]
            /\ UNCHANGED <<marker, procs>>
       ELSE StopReturns(~IsRunning(marker).ret)

\* After the sleep that follows the kill: `if not self.is_running(): return
\* True`, else `return not self.is_running()`.
StopAfterKill ==
    /\ stopper.pc = "waiting"
    /\ StopReturns(~IsRunning(marker).ret)

\* The process that was sent SIGKILL is gone.
KillTakesEffect ==
    /\ stopper.kill
    /\ Live(stopper.pid)
    /\ procs' = [procs EXCEPT ![stopper.pid].pc = "dead"]
    /\ UNCHANGED <<marker, stopper>>

\* What a command-line tool would do: it is not installed, it sets the
\* clipboard, it runs and exits with an error, or it cannot be executed.
ToolStates == {"absent", "ok", "fails", "raises"}

\* What the desktop may be like when set_clipboard_content is called.
MechSettings ==
    [gtk : {"ok", "raises"}, wl : ToolStates, xclip : ToolStates]

\* ClipboardMonitor.set_clipboard_content: the text it puts on the clipboard
\* (<<>>: none), the mechanisms it ran and whether it logged the final error.
\* subprocess.run(..., check=False) does not report a failing tool, and the
\* method returns after the first tool that shutil.which finds.
SetClipboardContent(content, m) ==
    IF Len(content) = 0 \/ StripIsEmpty(content)
    THEN [text |-> <<>>, tried |-> <<>>, logged |-> FALSE]
    ELSE IF m.gtk = "ok"
    THEN [text |-> content, tried |-> <<"gtk">>, logged |-> FALSE]
    ELSE IF m.wl # "absent"
    THEN [text   |-> IF m.wl = "ok" THEN content ELSE <<>>,
          tried  |-> <<"gtk", "wl-copy">>,
          logged |-> m.wl = "raises"]
    ELSE IF m.xclip # "absent"
    THEN [text   |-> IF m.xclip = "ok" THEN content ELSE <<>>,
          tried  |-> <<"gtk", "xclip">>,
          logged |-> m.xclip = "raises"]
    ELSE [text |-> <<>>, tried |-> <<"gtk">>, logged |-> TRUE]

SetClipboardContentCall(content) ==
    /\ clip' = SetClipboardContent(content, mech)
    /\ raised' = "none"
    /\ last' = Report("set_clipboard_content", NoRet, FALSE, FALSE, 0)
    /\ UNCHANGED <<items, max_items, cfg, file, failures, mech>>

\* GLib.source_remove(self.hide_timer), guarded by `if self.hide_timer`.
WithoutHideTimer(pending, held) ==
    IF held = <<>> THEN pending ELSE pending \ {held[1]}

\* Variant: the timer that is already pending is left in place.
ResetHideTimerKeepsOld(held) ==
    /\ next_source <= MaxSources
    /\ timers' = timers \cup {next_source}
    /\ hide_timer' = <<next_source>>
    /\ next_source' = next_source + 1

\* ClipboardPopup._reset_hide_timer of a popup whose hide_timer is held: the
\* pending timer is removed and GLib.timeout_add_seconds attaches a new one.
ResetHideTimer(held) ==
    /\ next_source <= MaxSources
    /\ timers' = WithoutHideTimer(timers, held) \cup {next_source}
    /\ hide_timer' = <<next_source>>
    /\ next_source' = next_source + 1

\* ClipboardPopup.hide: the pending timer is removed and forgotten.
Hide ==
    /\ popup
    /\ timers' = WithoutHideTimer(timers, hide_timer)
    /\ hide_timer' = <<>>
    /\ UNCHANGED <<popup, next_source, priming>>

\* The auto-hide timeout source t fires: GLib calls hide(), which returns
\* False, so GLib destroys the source.
HideTimerExpires(t) ==
    /\ t \in timers
    /\ timers' = WithoutHideTimer(timers, hide_timer) \ {t}
    /\ hide_timer' = <<>>
    /\ UNCHANGED <<popup, next_source, priming>>

\* ClipboardPopup.cleanup
Cleanup ==
    /\ timers' = WithoutHideTimer(timers, hide_timer)
    /\ hide_timer' = <<>>
    /\ UNCHANGED <<next_source, priming>>

\* What can go wrong inside stop(): nothing, the watcher's stop_monitoring
\* raises, or the popup's cleanup raises.
StopOutcomes == {"ok", "monitor_raises", "popup_raises"}

\* Variant: stop() leaves the watcher monitoring.
StopKeepsMonitoring(outcome, loop) ==
    IF ~running
    THEN /\ UNCHANGED <<watch, popupVars>>
         /\ main_loop' = loop
    ELSE /\ running' = FALSE
         /\ UNCHANGED <<last_content, monitoring, callbacks, exclude_passwords,
                        handlers, inflight, idle>>
         /\ Cleanup
         /\ popup' = FALSE
         /\ main_loop' = IF loop = "running" THEN "quit" ELSE loop

\* ClipboardDaemon.stop, called when main_loop is in state loop.  The whole
\* body is one try block: stop_monitoring clears monitoring before anything
\* else, an exception from a component is logged by the except clause and
\* the statements after the raising one (popup release, main_loop.quit) are
\* skipped.  quit is called only on a loop that is running.
Stop(outcome, loop) ==
    IF ~running
    THEN /\ UNCHANGED <<watch, popupVars>>
         /\ main_loop' = loop
    ELSE /\ running' = FALSE
         /\ StopMonitoring
         /\ IF outcome = "monitor_raises" \/ (popup /\ outcome = "popup_raises")
            THEN /\ UNCHANGED popupVars
                 /\ main_loop' = loop
            ELSE /\ Cleanup
                 /\ popup' = FALSE
                 /\ main_loop' = IF loop = "running" THEN "quit" ELSE loop

\* ClipboardDaemon.run, first statement: self.start().
RunStart ==
    /\ run_pc = "idle"
    /\ DaemonStart
    /\ run_pc' = "started"
    /\ UNCHANGED <<main_loop, popupVars>>

\* ClipboardDaemon.run: self.main_loop = GLib.MainLoop().
RunCreateLoop ==
    /\ run_pc = "started"
    /\ run_pc' = "created"
    /\ main_loop' = "created"
    /\ UNCHANGED <<popupVars, watch>>

\* ClipboardDaemon.run: self.main_loop.run() begins to dispatch.
RunLoop ==
    /\ run_pc = "created"
    /\ run_pc' = "looping"
    /\ main_loop' = "running"
    /\ UNCHANGED <<popupVars, watch>>

\* The handler of SIGTERM and SIGINT, installed by __init__: self.stop().
SignalStop(outcome) ==
    /\ run_pc \in {"idle", "started", "created", "looping"}
    /\ Stop(outcome, main_loop)
    /\ UNCHANGED run_pc

\* main_loop.run() returns after quit(); the finally clause calls stop().
LoopReturn(outcome) ==
    /\ run_pc = "looping"
    /\ main_loop = "quit"
    /\ Stop(outcome, "exited")
    /\ run_pc' = "returned"

\* Variant: run() re-raises without the finally clause.
LoopRaisesWithoutStop(outcome) ==
    /\ run_pc = "looping"
    /\ main_loop = "running"
    /\ main_loop' = "exited"
    /\ run_pc' = "raised"
    /\ UNCHANGED <<watch, popupVars>>

\* An exception leaves main_loop.run(): it is logged, re-raised, and the
\* finally clause calls stop() before it reaches the caller.
LoopRaises(outcome) ==
    /\ run_pc = "looping"
    /\ main_loop = "running"
    /\ Stop(outcome, "exited")
    /\ run_pc' = "raised"

\* KeyboardInterrupt leaves main_loop.run(): it is logged and swallowed, and
\* the finally clause calls stop().
LoopInterrupted(outcome) ==
    /\ run_pc = "looping"
    /\ main_loop = "running"
    /\ Stop(outcome, "exited")
    /\ run_pc' = "returned"

\* ClipboardPopup.refresh_items: load_history on the store the popup shares
\* with the daemon; an exception it raises is logged and swallowed.
RefreshItems(op) ==
    /\ items' = LoadedItems(items, file)
    /\ raised' = "none"
    /\ last' = Report(op, NoRet, FALSE, FALSE, 0)
    /\ UNCHANGED <<max_items, cfg, file, failures>>

\* ClipboardPopup.show_at_cursor of a popup whose hide_timer is held:
\* _prime_current_clipboard issues a read, refresh_items reloads the store,
\* the window is presented and _reset_hide_timer arms the auto-hide timer.
ShowAtCursor(held) ==
    /\ priming < MaxPriming
    /\ priming' = priming + 1
    /\ RefreshItems("show_popup")
    /\ ResetHideTimer(held)

\* ClipboardDaemon.show_popup: the popup is created when there is none
\* (ClipboardPopup.__init__ sets hide_timer to None) and shown.
ShowPopup ==
    /\ popup' = TRUE
    /\ ShowAtCursor(IF popup THEN hide_timer ELSE <<>>)
    /\ UNCHANGED <<run_pc, main_loop, watch>>

\* ClipboardPopup._on_prime_text_ready: the completion of the popup's read.
\* Any text is handed to add_item; refresh_items is scheduled when add_item
\* returned an item.
OnPrimeTextReady(res, now) ==
    /\ priming > 0
    /\ priming' = priming - 1
    /\ UNCHANGED <<popup, hide_timer, timers, next_source>>
    /\ UNCHANGED <<last_content, monitoring, callbacks, exclude_passwords,
                   handlers, inflight, running>>
    /\ IF res.ok /\ res.content # <<>>
       THEN /\ AddItem(res.content, "text", now, "ok")
            /\ idle' = IF last'.ret = NoRet THEN idle
                       ELSE Append(idle, <<"refresh_items", last'.ret[1]>>)
            /\ Len(idle') <= MaxIdle
       ELSE /\ last' = Report("prime_ready", NoRet, FALSE, FALSE, 0)
            /\ raised' = "none"
            /\ UNCHANGED <<items, max_items, cfg, file, failures, idle>>

\* ClipboardDaemon.get_status: the keys running, history_items and
\* monitoring of the snapshot.
GetStatus ==
    [running       |-> running,
     history_items |-> Len(items),
     monitoring    |-> monitoring]

\* The event loop is dispatching callbacks.
Dispatching == run_pc = "looping" /\ main_loop = "running"

----------------------------------------------------------------------------
(* Specifications *)

TypeOK ==
    /\ max_items \in 1..MaxHistory
    /\ cfg \in Configs
    /\ failures \in 0..MaxWriteFailures

\* No get_items call was made yet.
NoView == [shares |-> FALSE, elems |-> <<>>]

\* ClipboardMonitor.__init__, ClipboardDaemon.__init__ (the daemon registers
\* its own callback) and the default of exclude_passwords.
WatchInit ==
    /\ last_content = <<>>
    /\ monitoring = FALSE
    /\ callbacks = <<"daemon">>
    /\ exclude_passwords = TRUE
    /\ handlers = 0
    /\ inflight = 0
    /\ idle = <<>>
    /\ running = FALSE

\* First start: no history file yet.
Init ==
    /\ cfg \in Configs
    /\ max_items = cfg.max_history_items
    /\ file = NoFile
    /\ items = LoadedItems(<<>>, file)
    /\ failures = 0
    /\ last = Report("init", NoRet, FALSE, FALSE, 0)
    /\ accepted = <<>>
    /\ raised = "none"
    /\ view = NoView
    /\ WatchInit
    /\ LifeInit

DoAddItem ==
    \E in \in Inputs, now \in Instants :
        AddItem(in[1], in[2], now, "ok") /\ UNCHANGED <<life, accepted, view, watch>>

DoClearHistory == ClearHistory("ok") /\ UNCHANGED <<life, accepted, view, watch>>

DoLoadHistory == LoadHistory("ok") /\ UNCHANGED <<life, accepted, view, watch>>

\* The configuration that is loaded is the one the file holds.
DoReloadConfig ==
    \E loaded \in ConfigFiles :
        /\ ReloadConfig(loaded)
        /\ config_file' = IF loaded = <<>> THEN config_file
                                           ELSE SavedConfigFile(loaded[1])
        /\ UNCHANGED <<loopVars, clipVars, markerVars, accepted, view, watch>>

DoConfigClearHistory == ConfigClearHistory /\ UNCHANGED <<life, accepted, view, watch>>

DoRestart ==
    \E c \in Configs :
        /\ Restart(c)
        /\ config_file' = SavedConfigFile(c)
        /\ UNCHANGED <<loopVars, clipVars, markerVars, accepted, view, watch>>

\* One reading of the clock.
Epoch == [sec |-> 0, usec |-> 0]

\* Texts that add_item accepts under the default configuration.
Texts == {TextA, TextPw, TextLong}

\* add_item of a text, the clock standing still.
DoAddText ==
    \E c \in Texts :
        AddItem(c, "text", Epoch, "ok") /\ UNCHANGED <<life, accepted, view, watch>>

Next ==
    \/ DoAddItem
    \/ DoClearHistory
    \/ DoLoadHistory
    \/ DoReloadConfig
    \/ DoConfigClearHistory
    \/ DoRestart

\* The daemon and the settings window on a disk whose writes succeed.
Spec == Init /\ [][Next]_vars

\* add_item whose save_history hits a storage I/O error.
DoAddItemWriteFails ==
    \E in \in Inputs, now \in Instants, w \in WriteFailures :
        /\ ~Rejected(in[1], cfg)
        /\ AddItem(in[1], in[2], now, w)
        /\ UNCHANGED <<life, accepted, view, watch>>

\* clear_history whose save_history hits a storage I/O error.
DoClearHistoryWriteFails ==
    \E w \in WriteFailures : ClearHistory(w) /\ UNCHANGED <<life, accepted, view, watch>>

NextIO ==
    \/ DoAddItem
    \/ DoClearHistory
    \/ DoLoadHistory
    \/ DoAddItemWriteFails
    \/ DoClearHistoryWriteFails

\* The history store, under one configuration, on a disk where up to
\* MaxWriteFailures history writes fail.
SpecIO == Init /\ [][NextIO]_vars

\* add_item of a text whose save_history hits a storage I/O error.
DoAddTextWriteFails ==
    \E c \in Texts, w \in WriteFailures :
        /\ ~Rejected(c, cfg)
        /\ AddItem(c, "text", Epoch, w)
        /\ UNCHANGED <<life, accepted, view, watch>>

NextWriteFail ==
    \/ DoAddText
    \/ DoClearHistory
    \/ DoAddTextWriteFails
    \/ DoClearHistoryWriteFails

\* Texts recorded and the history cleared on a disk where up to
\* MaxWriteFailures history writes fail, the clock standing still.
SpecWriteFail == Init /\ [][NextWriteFail]_vars

\* History files that another program, an editor or a damaged disk leaves.
ForeignFiles ==
    {CorruptFile, JsonFile(<<NotAnObject>>), JsonFile(<<EntryWithoutTimestamp>>),
     JsonFile(<<EntryBadTimestamp>>)}

\* Something other than the daemon replaces the history file.
DoExternalWrite ==
    \E f \in ForeignFiles :
        /\ file' = f
        /\ last' = Report("external_write", NoRet, FALSE, FALSE, 0)
        /\ UNCHANGED <<items, max_items, cfg, failures, accepted, raised, view, watch,
                       life>>

\* load_history whose open() or read fails.
DoLoadHistoryReadFails ==
    /\ file.exists
    /\ LoadHistory("io_error")
    /\ UNCHANGED <<life, accepted, view, watch>>

NextDisk ==
    \/ DoAddItem
    \/ DoLoadHistory
    \/ DoLoadHistoryReadFails
    \/ DoExternalWrite

\* The history store, under one configuration, on a disk whose history file
\* other programs may replace and whose reads may fail.
SpecDisk == Init /\ [][NextDisk]_vars

\* Where inside save_history the process dies: before open(), after open()
\* truncated the file, while json.dump writes, after the text is complete.
CrashPoints == {"before_open", "truncated", "partial", "written"}

\* The file a crash inside save_history leaves: open(history_file, 'w')
\* truncates the file in place and json.dump then writes into it.
CrashedFile(its, f, p) ==
    CASE p = "before_open" -> f
      [] p = "truncated"   -> CorruptFile
      [] p = "partial"     -> CorruptFile
      [] p = "written"     -> JsonFile(Encode(its))

\* The process dies at point p of the save_history call that follows the
\* list update its; the memory of the process is lost.
CrashInSave(its, p) ==
    /\ file' = CrashedFile(its, file, p)
    /\ items' = <<>>
    /\ raised' = "none"
    /\ last' = Report("crash", NoRet, FALSE, FALSE, 0)
    /\ UNCHANGED <<max_items, cfg, failures>>

\* add_item killed inside save_history
CrashInAddItem(content, ctype, now, p) ==
    /\ ~Rejected(content, cfg)
    /\ CrashInSave(AddedItems(items, content, ctype, now, max_items), p)

\* clear_history killed inside save_history
CrashInClearHistory(p) == CrashInSave(<<>>, p)

\* A process exists (the last event was not its death).
Alive == last.op # "crash"

DoAddItemAlive == Alive /\ DoAddItem

DoCrashInAddItem ==
    \E in \in Inputs, now \in Instants, p \in CrashPoints :
        /\ Alive
        /\ CrashInAddItem(in[1], in[2], now, p)
        /\ UNCHANGED <<life, accepted, view, watch>>

DoCrashInClearHistory ==
    \E p \in CrashPoints :
        /\ Alive
        /\ CrashInClearHistory(p)
        /\ UNCHANGED <<life, accepted, view, watch>>

\* The daemon is started again after a crash.
DoRestartAfterCrash == ~Alive /\ DoRestart

NextCrash ==
    \/ DoAddItemAlive
    \/ DoCrashInAddItem
    \/ DoCrashInClearHistory
    \/ DoRestartAfterCrash

\* The daemon killed inside save_history and started again.
SpecCrash == Init /\ [][NextCrash]_vars

\* get_items' limit argument: <<>> is None, <<n>> a count.
Limits == {<<>>} \cup {<<n>> : n \in 0..(MaxHistory + 1)}

\* self.items[:n] for n >= 0
Slice(its, n) == [i \in 1..(IF n < Len(its) THEN n ELSE Len(its)) |-> its[i]]

\* Variant: the store's own list object is returned.
GetItemsShared(its, limit) ==
    [shares |-> TRUE,
     elems  |-> IF limit = <<>> THEN its ELSE Slice(its, limit[1])]

\* ClipboardHistory.get_items: list.copy() and a slice both build a new list
\* object (shares: the returned object is self.items itself).
GetItems(its, limit) ==
    [shares |-> FALSE,
     elems  |-> IF limit = <<>> THEN its ELSE Slice(its, limit[1])]

GetItemsCall(limit) ==
    /\ view' = GetItems(items, limit)
    /\ raised' = "none"
    /\ last' = Report("get_items", NoRet, FALSE, FALSE, 0)
    /\ UNCHANGED <<items, max_items, cfg, file, failures>>

\* What a caller may do to a list it holds.
Mutations == {"append", "pop", "reverse"}

Reverse(l) == [i \in 1..Len(l) |-> l[Len(l) + 1 - i]]

Mutated(l, m) ==
    CASE m = "append"  -> Append(l, ClipboardItem(TextA, "text", Epoch))
      [] m = "pop"     -> SubSeq(l, 1, Len(l) - 1)
      [] m = "reverse" -> Reverse(l)

\* The caller of get_items mutates the list it was given; the store's list
\* changes with it exactly when both are one object.
MutateView(m) ==
    /\ last.op = "get_items"
    /\ Mutated(view.elems, m) # view.elems
    /\ view' = [view EXCEPT !.elems = Mutated(view.elems, m)]
    /\ items' = IF view.shares THEN view'.elems ELSE items
    /\ raised' = "none"
    /\ last' = Report("mutate_view", NoRet, FALSE, FALSE, 0)
    /\ UNCHANGED <<max_items, cfg, file, failures>>

DoGetItems == \E limit \in Limits : GetItemsCall(limit) /\ UNCHANGED <<life, accepted, watch>>

DoMutateView == \E m \in Mutations : MutateView(m) /\ UNCHANGED <<life, accepted, watch>>

NextView ==
    \/ DoAddText
    \/ DoGetItems
    \/ DoMutateView

\* The history store and a caller of get_items that changes the list it got.
SpecView == Init /\ [][NextView]_vars

DoAddCallback ==
    /\ AddCallback("observer")
    /\ StoreUntouched("add_callback")
    /\ UNCHANGED <<life, accepted, view>>

DoStartMonitoring ==
    /\ StartMonitoring
    /\ UNCHANGED running
    /\ StoreUntouched("start_monitoring")
    /\ UNCHANGED <<life, accepted, view>>

DoStopMonitoring ==
    /\ StopMonitoring
    /\ UNCHANGED running
    /\ StoreUntouched("stop_monitoring")
    /\ UNCHANGED <<life, accepted, view>>

DoClipboardChanged ==
    /\ ClipboardChanged
    /\ StoreUntouched("changed")
    /\ UNCHANGED <<life, accepted, view>>

DoTextReady ==
    \E res \in ReadResults :
        TextReady(res, Epoch) /\ UNCHANGED <<life, accepted, view>>

DoInvokeIdle == InvokeIdle /\ UNCHANGED <<life, accepted, view>>

DoSetExcludePasswords ==
    \E b \in BOOLEAN :
        /\ SetExcludePasswords(b)
        /\ StoreUntouched("reload_config")
        /\ UNCHANGED <<life, accepted, view>>

DoDaemonStart ==
    /\ DaemonStart
    /\ StoreUntouched("start")
    /\ UNCHANGED <<life, accepted, view>>

DoDaemonStop ==
    /\ DaemonStop
    /\ StoreUntouched("stop")
    /\ UNCHANGED <<life, accepted, view>>

NextWatch ==
    \/ DoStartMonitoring
    \/ DoStopMonitoring
    \/ DoClipboardChanged
    \/ DoTextReady
    \/ DoInvokeIdle
    \/ DoSetExcludePasswords

\* The clipboard watcher on a running event loop: reads are issued, complete
\* and schedule callbacks while monitoring is switched on and off.
SpecWatch == Init /\ [][NextWatch]_vars

NextDaemon ==
    \/ DoAddCallback
    \/ DoDaemonStart
    \/ DoDaemonStop
    \/ DoClipboardChanged
    \/ DoTextReady
    \/ DoInvokeIdle

\* The daemon started and stopped any number of times, with observers
\* registering on its watcher.
SpecDaemon == Init /\ [][NextDaemon]_vars

DoSetClipboardContent ==
    \E c \in {TextA, TextLong, TextBlank} :
        /\ SetClipboardContentCall(c)
        /\ UNCHANGED <<loopVars, markerVars, confVars, accepted, view, watch>>

\* Tools are installed or removed, the display server comes or goes.
DoDesktopChanges ==
    \E m \in MechSettings :
        /\ mech' = m
        /\ StoreUntouched("desktop")
        /\ UNCHANGED <<clip, loopVars, markerVars, confVars, accepted, view, watch>>

NextClipboard ==
    \/ DoSetClipboardContent
    \/ DoDesktopChanges

\* set_clipboard_content called on desktops of every kind.
SpecClipboard == Init /\ [][NextClipboard]_vars

DoRunStart ==
    /\ RunStart
    /\ StoreUntouched("run_start")
    /\ UNCHANGED <<clipVars, markerVars, confVars, accepted, view>>

DoRunCreateLoop ==
    /\ RunCreateLoop
    /\ StoreUntouched("loop_create")
    /\ UNCHANGED <<clipVars, markerVars, confVars, accepted, view>>

DoRunLoop ==
    /\ RunLoop
    /\ StoreUntouched("loop_run")
    /\ UNCHANGED <<clipVars, markerVars, confVars, accepted, view>>

DoSignalStop ==
    /\ SignalStop("ok")
    /\ StoreUntouched("signal")
    /\ UNCHANGED <<clipVars, markerVars, confVars, accepted, view>>

DoLoopReturn ==
    /\ LoopReturn("ok")
    /\ StoreUntouched("run_returned")
    /\ UNCHANGED <<clipVars, markerVars, confVars, accepted, view>>

DoLoopInterrupted ==
    /\ LoopInterrupted("ok")
    /\ StoreUntouched("run_interrupted")
    /\ UNCHANGED <<clipVars, markerVars, confVars, accepted, view>>

DoLoopRaises ==
    /\ LoopRaises("ok")
    /\ last' = Report("run_raised", NoRet, FALSE, FALSE, 0)
    /\ raised' = "Exception"
    /\ UNCHANGED <<items, max_items, cfg, file, failures>>
    /\ UNCHANGED <<clipVars, markerVars, confVars, accepted, view>>

DoShowPopup ==
    /\ Dispatching
    /\ ShowPopup
    /\ UNCHANGED <<clipVars, markerVars, confVars, accepted, view>>

DoDispatchChanged == Dispatching /\ DoClipboardChanged

DoDispatchTextReady == Dispatching /\ DoTextReady

DoDispatchIdle == Dispatching /\ DoInvokeIdle

NextRun ==
    \/ DoRunStart
    \/ DoRunCreateLoop
    \/ DoRunLoop
    \/ DoSignalStop
    \/ DoLoopReturn
    \/ DoLoopInterrupted
    \/ DoLoopRaises
    \/ DoShowPopup
    \/ DoDispatchChanged
    \/ DoDispatchTextReady
    \/ DoDispatchIdle

\* One run() of the daemon from construction to its return, with signals
\* delivered at any point.
SpecRun == Init /\ [][NextRun]_vars

\* run() is sequential code and the event loop returns once quit() was
\* called on it: these steps are taken when they stay possible.
SpecRunFair ==
    /\ SpecRun
    /\ WF_vars(DoRunCreateLoop)
    /\ WF_vars(DoRunLoop)
    /\ WF_vars(DoLoopReturn)



DoOnPrimeTextReady ==
    \E res \in ReadResults :
        /\ Dispatching
        /\ OnPrimeTextReady(res, Epoch)
        /\ UNCHANGED <<run_pc, main_loop, clipVars, markerVars, confVars,
                       accepted, view>>

\* The user closes the popup (Escape, the close button, a click on an
\* entry) or the window loses the focus.
DoHide ==
    /\ Dispatching
    /\ Hide
    /\ StoreUntouched("hide")
    /\ UNCHANGED <<run_pc, main_loop, watch, clipVars, markerVars, confVars,
                   accepted, view>>

DoHideTimerExpires ==
    \E t \in timers :
        /\ Dispatching
        /\ HideTimerExpires(t)
        /\ StoreUntouched("hide_timer_expires")
        /\ UNCHANGED <<run_pc, main_loop, watch, clipVars, markerVars,
                       confVars, accepted, view>>

\* show_popup called while the event loop is not dispatching: before run()
\* entered the loop or after stop() released the popup.
DoShowPopupIdle ==
    /\ ~Dispatching
    /\ ShowPopup
    /\ UNCHANGED <<clipVars, markerVars, confVars, accepted, view>>

NextPopup ==
    \/ DoRunStart
    \/ DoRunCreateLoop
    \/ DoRunLoop
    \/ DoSignalStop
    \/ DoShowPopup
    \/ DoOnPrimeTextReady
    \/ DoHide
    \/ DoHideTimerExpires
    \/ DoDispatchChanged
    \/ DoDispatchTextReady
    \/ DoDispatchIdle

\* One run() of the daemon in which the popup is shown, hidden and primed
\* while the watcher reads the clipboard.
SpecPopup == Init /\ [][NextPopup]_vars

NextHide ==
    \/ DoRunStart
    \/ DoRunCreateLoop
    \/ DoRunLoop
    \/ DoSignalStop
    \/ DoShowPopup
    \/ DoShowPopupIdle
    \/ DoOnPrimeTextReady
    \/ DoHide
    \/ DoHideTimerExpires

\* The popup shown, hidden, timed out and released by stop() while nothing
\* new is copied: only the popup reads the clipboard.
SpecHide == Init /\ [][NextHide]_vars

DoSignalStopFails ==
    \E outcome \in StopOutcomes \ {"ok"} :
        /\ SignalStop(outcome)
        /\ StoreUntouched("signal_stop_fails")
        /\ UNCHANGED <<clipVars, markerVars, confVars, accepted, view>>

DoLoopInterruptedStopFails ==
    \E outcome \in StopOutcomes \ {"ok"} :
        /\ LoopInterrupted(outcome)
        /\ StoreUntouched("run_interrupted")
        /\ UNCHANGED <<clipVars, markerVars, confVars, accepted, view>>

DoLoopRaisesStopFails ==
    \E outcome \in StopOutcomes \ {"ok"} :
        /\ LoopRaises(outcome)
        /\ last' = Report("run_raised", NoRet, FALSE, FALSE, 0)
        /\ raised' = "Exception"
        /\ UNCHANGED <<items, max_items, cfg, file, failures>>
        /\ UNCHANGED <<clipVars, markerVars, confVars, accepted, view>>

NextRunFails ==
    \/ NextRun
    \/ DoSignalStopFails
    \/ DoLoopInterruptedStopFails
    \/ DoLoopRaisesStopFails

\* One run() of the daemon in which a component may raise inside stop().
SpecRunFails == Init /\ [][NextRunFails]_vars


DoCreateCheck ==
    \E p \in Pids :
        /\ CreateCheck(p)
        /\ raised' = IF IsRunning(marker).ret THEN "PidManagerError" ELSE "none"
        /\ last' = Report("create_check",
                          IF IsRunning(marker).ret THEN Ret(GetPid(marker))
                                                   ELSE NoRet,
                          FALSE, FALSE, 0)
        /\ UNCHANGED <<items, max_items, cfg, file, failures, stopper>>
        /\ UNCHANGED <<loopVars, clipVars, confVars, accepted, view, watch>>

DoIsRunning ==
    /\ IsRunningCall
    /\ raised' = "none"
    /\ last' = Report("is_running", Ret(IsRunning(marker).ret), FALSE, FALSE, 0)
    /\ UNCHANGED <<items, max_items, cfg, file, failures, stopper>>
    /\ UNCHANGED <<loopVars, clipVars, confVars, accepted, view, watch>>

\* Before any of the processes starts, a marker is left over from an earlier
\* session: its identifier now belongs to another user's process, or its
\* text is no number.
DoMarkerLeftOver ==
    \E m \in {ForeignPid, Garbage} :
        /\ marker = NoMarker
        /\ \A p \in Pids : procs[p].pc = "idle"
        /\ marker' = m
        /\ UNCHANGED procs
        /\ StoreUntouched("marker_left_over")
        /\ UNCHANGED stopper
        /\ UNCHANGED <<loopVars, clipVars, confVars, accepted, view, watch>>

DoCreateWrite ==
    \E p \in Pids :
        /\ CreateWrite(p)
        /\ StoreUntouched("create_write")
        /\ UNCHANGED stopper
        /\ UNCHANGED <<loopVars, clipVars, confVars, accepted, view, watch>>

DoMainRuns ==
    \E p \in Pids :
        /\ MainRuns(p)
        /\ StoreUntouched("main")
        /\ UNCHANGED stopper
        /\ UNCHANGED <<loopVars, clipVars, confVars, accepted, view, watch>>

DoMainReturns ==
    \E p \in Pids :
        /\ MainReturns(p)
        /\ StoreUntouched("main_returned")
        /\ UNCHANGED stopper
        /\ UNCHANGED <<loopVars, clipVars, confVars, accepted, view, watch>>

DoProcessKilled ==
    \E p \in Pids :
        /\ ProcessKilled(p)
        /\ StoreUntouched("killed")
        /\ UNCHANGED stopper
        /\ UNCHANGED <<loopVars, clipVars, confVars, accepted, view, watch>>

NextMarker ==
    \/ DoMarkerLeftOver
    \/ DoIsRunning
    \/ DoCreateCheck
    \/ DoCreateWrite
    \/ DoMainRuns
    \/ DoMainReturns
    \/ DoProcessKilled

\* Processes that start the daemon against the same process marker, with or
\* without calling PidManager.create first.
SpecMarker == Init /\ [][NextMarker]_vars


\* The daemon is started by a process that called create(), before anybody
\* asks it to stop and while no other process is using the marker.
DoStartTarget ==
    /\ stopper.pc = "idle"
    /\ \/ DoMarkerLeftOver
       \/ DoCreateCheck
       \/ DoCreateWrite
       \/ DoMainRuns
    /\ \A p, q \in Pids :
          (procs'[p] # procs[p] /\ q # p) => ~Live(q)

DoStopBegin ==
    \E timeout \in 0..MaxTimeout :
        /\ StopBegin(timeout)
        /\ StoreUntouched("stop_process")
        /\ UNCHANGED <<loopVars, clipVars, confVars, accepted, view, watch>>

DoStopPoll ==
    /\ StopPoll
    /\ StoreUntouched("stop_process_poll")
    /\ UNCHANGED <<loopVars, clipVars, confVars, accepted, view, watch>>

DoStopAfterPolls ==
    /\ StopAfterPolls
    /\ StoreUntouched("stop_process_after_polls")
    /\ UNCHANGED <<loopVars, clipVars, confVars, accepted, view, watch>>

DoStopAfterKill ==
    /\ StopAfterKill
    /\ StoreUntouched("stop_process_after_kill")
    /\ UNCHANGED <<loopVars, clipVars, confVars, accepted, view, watch>>

DoKillTakesEffect ==
    /\ KillTakesEffect
    /\ StoreUntouched("sigkill")
    /\ UNCHANGED <<loopVars, clipVars, confVars, accepted, view, watch>>

NextStop ==
    \/ DoStartTarget
    \/ DoMainReturns
    \/ DoProcessKilled
    \/ DoStopBegin
    \/ DoStopPoll
    \/ DoStopAfterPolls
    \/ DoStopAfterKill
    \/ DoKillTakesEffect

\* stop_process called on a marker that a daemon, a dead process, another
\* user's process or nobody holds; the target exits when it likes.
SpecStop == Init /\ [][NextStop]_vars

DoReloadSignal ==
    /\ ReloadConfigFile
    /\ UNCHANGED <<clipVars, markerVars, accepted, view>>

\* The user or another program rewrites the configuration file.
DoEditConfigFile ==
    \E f \in RawConfigFiles \ {NoConfigFile} :
        /\ config_file' = f
        /\ last' = Report("edit_config", NoRet, FALSE, FALSE, 0)
        /\ UNCHANGED <<items, max_items, cfg, file, failures, raised>>
        /\ UNCHANGED <<loopVars, clipVars, markerVars, accepted, view, watch>>

DoRemoveConfigFile ==
    /\ config_file' = NoConfigFile
    /\ last' = Report("remove_config", NoRet, FALSE, FALSE, 0)
    /\ UNCHANGED <<items, max_items, cfg, file, failures, raised>>
    /\ UNCHANGED <<loopVars, clipVars, markerVars, accepted, view, watch>>

NextReload ==
    \/ DoDaemonStart
    \/ DoClipboardChanged
    \/ DoTextReady
    \/ DoEditConfigFile
    \/ DoRemoveConfigFile
    \/ DoReloadSignal

\* A daemon that is started, records clipboard texts and is told to reload
\* while its configuration file is rewritten.
SpecReload == Init /\ [][NextReload]_vars

NextClear ==
    \/ DoDaemonStart
    \/ DoClipboardChanged
    \/ DoTextReady
    \/ DoInvokeIdle
    \/ DoClearHistory

\* The running daemon reads the clipboard while ClipboardDaemon.clear_history
\* empties the history from time to time.
SpecClear == Init /\ [][NextClear]_vars

NextStatus ==
    \/ DoDaemonStart
    \/ DoRunStart
    \/ DoRunCreateLoop
    \/ DoRunLoop
    \/ DoSignalStop
    \/ DoSignalStopFails
    \/ DoLoopReturn
    \/ DoLoopInterrupted
    \/ DoLoopRaises
    \/ DoEditConfigFile
    \/ DoReloadSignal

\* The daemon started by start() or run(), stopped by signals or by the end
\* of run(), and told to reload a configuration file that may have changed.
SpecStatus == Init /\ [][NextStatus]_vars

\* The reference list after a call: the pair goes to the front when accepted.
AcceptedAfter(acc, content, ctype, c) ==
    IF Rejected(content, c) THEN acc
    ELSE <<<<content, ctype>>>> \o SelectSeq(acc, LAMBDA p : p # <<content, ctype>>)

RecordCall ==
    \E in \in Inputs, now \in Instants :
        /\ AddItem(in[1], in[2], now, "ok")
        /\ accepted' = AcceptedAfter(accepted, in[1], in[2], cfg)
        /\ UNCHANGED <<life, view, watch>>

NextRecord == RecordCall

\* An empty store with a fixed max_items, driven by add_item calls only.
SpecRecord == Init /\ [][NextRecord]_vars

----------------------------------------------------------------------------
(* Properties *)

PairOf(item) == <<item.content, item.content_type>>
PairsOf(its) == [i \in 1..Len(its) |-> PairOf(its[i])]
Take(s, n) == IF Len(s) > n THEN SubSeq(s, 1, n) ELSE s
Holds(its, content, ctype) ==
    \E i \in 1..Len(its) : PairOf(its[i]) = <<content, ctype>>

\* C1: after any sequence of add_item calls, each call leaves the history with
\* at most max_items entries.
C1_AddItemKeepsLengthBounded ==
    last.op = "add_item" => Len(items) <= max_items

\* An add_item call has just trimmed the history.
C1_Witness ==
    /\ last.op = "add_item"
    /\ last.trimmed > 0
    /\ Len(items) = max_items

\* C2: no two history entries have the same (content, content_type) pair.
C2_NoDuplicatePairs ==
    \A i, j \in 1..Len(items) : i # j => PairOf(items[i]) # PairOf(items[j])

\* A pair that was already present has been recorded again, in a store that
\* holds other entries too.
C2_Witness ==
    /\ last.op = "add_item"
    /\ last.moved
    /\ Len(items) >= 2

\* The content the claim calls invalid: empty, all whitespace, or of a length
\* outside [min_text_length, max_text_length].
InvalidContent(content) ==
    \/ content = <<>>
    \/ \A i \in 1..Len(content) : content[i] \in Whitespace
    \/ Len(content) < cfg.min_text_length
    \/ Len(content) > cfg.max_text_length

\* C3: add_item with invalid content returns nothing and changes neither the
\* in-memory list nor the history file.
C3_InvalidContentChangesNothing ==
    [][\A in \in Inputs, now \in Instants :
          (InvalidContent(in[1]) /\ AddItem(in[1], in[2], now, "ok"))
             => (last'.ret = NoRet /\ items' = items /\ file' = file)]_vars

\* add_item has just returned nothing on a store that holds entries.
C3_Witness ==
    /\ last.op = "add_item"
    /\ last.ret = NoRet
    /\ items # <<>>
    /\ file = JsonFile(Encode(items))

\* C4: add_item with a valid pair that is already present leaves the length
\* unchanged, puts the single entry carrying that pair at index 0 and keeps
\* the relative order of all other entries.
C4_DuplicateMovesToFront ==
    [][\A in \in Inputs, now \in Instants :
          (/\ ~InvalidContent(in[1])
           /\ Holds(items, in[1], in[2])
           /\ AddItem(in[1], in[2], now, "ok"))
             => (/\ Len(items') = Len(items)
                 /\ PairOf(items'[1]) = in
                 /\ Cardinality({i \in 1..Len(items') : PairOf(items'[i]) = in}) = 1
                 /\ SelectSeq(items', LAMBDA e : PairOf(e) # in)
                      = SelectSeq(items, LAMBDA e : PairOf(e) # in))]_vars

\* C5: recording a pair again while it is still in the history leaves the
\* entry at index 0 with the timestamp the pair's entry already carried (the
\* one of its first recording since it was last absent).
C5_ReRecordKeepsTimestamp ==
    [][\A in \in Inputs, now \in Instants :
          (/\ ~InvalidContent(in[1])
           /\ Holds(items, in[1], in[2])
           /\ AddItem(in[1], in[2], now, "ok"))
             => \A i \in 1..Len(items) :
                   PairOf(items[i]) = in
                      => items'[1].timestamp = items[i].timestamp]_vars

\* C6: from an empty store with a fixed max_items, the history is the list of
\* distinct accepted pairs, most recently accepted first, truncated to
\* max_items.
C6_HistoryIsRecencyListTruncated ==
    PairsOf(items) = Take(accepted, max_items)

\* More distinct pairs were accepted than the store holds, and the store is
\* full with at least three entries.
C6_Witness ==
    /\ Len(accepted) > max_items
    /\ Len(items) = max_items
    /\ max_items >= 3

\* C7: when the store holds exactly max_items entries and add_item records a
\* pair not yet present, the length stays max_items, the entry that was last
\* by position is removed, and the earlier entries follow the new entry in
\* their old order.
C7_TrimRemovesTail ==
    [][\A in \in Inputs, now \in Instants :
          (/\ Len(items) = max_items
           /\ ~InvalidContent(in[1])
           /\ ~Holds(items, in[1], in[2])
           /\ AddItem(in[1], in[2], now, "ok"))
             => (/\ Len(items') = max_items
                 /\ PairOf(items'[1]) = in
                 /\ Tail(items') = SubSeq(items, 1, Len(items) - 1))]_vars

\* A new pair was recorded in a full store of at least three entries whose
\* surviving entries are not in timestamp order.
C7_Witness ==
    /\ last.op = "add_item"
    /\ ~last.moved
    /\ last.trimmed = 1
    /\ Len(items) = max_items
    /\ Len(items) >= 3
    /\ items[2].timestamp.sec < items[3].timestamp.sec

\* C8: in every reachable state the number of entries is at most the store's
\* current max_items.
C8_LengthWithinCurrentMax ==
    Len(items) <= max_items

\* C9: after every add_item that returns an entry and after every
\* clear_history, provided the write succeeds, the history file decodes to
\* exactly the in-memory list.
C9_FileMirrorsItemsAfterWrite ==
    (/\ last.saved
     /\ \/ last.op = "add_item" /\ last.ret # NoRet
        \/ last.op = "clear_history")
       => (/\ file.exists
           /\ file.valid
           /\ Decode(file.data) = items
           /\ last.op = "clear_history" => file.data = <<>>)

\* A write has succeeded after an earlier write had failed, for a store of at
\* least two entries.
C9_Witness ==
    /\ last.op = "add_item"
    /\ last.ret # NoRet
    /\ last.saved
    /\ failures > 0
    /\ Len(items) >= 2

\* C10: for any store state, save_history followed by load_history yields
\* the same sequence of entries (content, content_type, timestamp, preview).
C10_SaveLoadRoundTrip ==
    LoadedItems(items, SaveHistory(items, file, "ok")) = items

\* load_history has just read back a saved store that holds a timestamp with
\* microseconds, one on a whole second and a non-text entry.
C10_Witness ==
    /\ last.op = "load_history"
    /\ file = JsonFile(Encode(items))
    /\ \E i \in 1..Len(items) : items[i].timestamp.usec # 0
    /\ \E i \in 1..Len(items) : items[i].timestamp.usec = 0
    /\ \E i \in 1..Len(items) : items[i].content_type # "text"

\* C11: load_history never raises: after a read failure, or on a file whose
\* content is not a valid array of entry objects, it returns normally and the
\* in-memory history is empty.
C11_LoadHistoryNeverRaises ==
    [][\A r \in ReadOutcomes :
          (/\ file.exists
           /\ LoadException(file, r) # "none"
           /\ LoadHistory(r))
          => (raised' = "none" /\ items' = <<>>)]_vars

\* C12: whenever load_history runs and the history file does not exist, the
\* in-memory history is empty afterwards, also when the store held entries.
C12_MissingFileLoadsEmpty ==
    [][(~file.exists /\ LoadHistory("ok")) => items' = <<>>]_vars

\* C13: if the process crashes anywhere inside save_history while a non-empty
\* history was persisted, the next load_history (the next start) yields the
\* previously persisted list or the new list.
C13_CrashInSaveKeepsOldOrNew ==
    [][\A in \in Inputs, now \in Instants, p \in CrashPoints :
          (/\ file.exists /\ file.valid /\ file.data # <<>>
           /\ CrashInAddItem(in[1], in[2], now, p))
          => LoadedItems(<<>>, file')
                \in {Decode(file.data),
                     AddedItems(items, in[1], in[2], now, max_items)}]_vars

\* C14: when the write in save_history fails with a storage I/O error,
\* add_item and clear_history propagate no exception (the daemon keeps
\* running) and add_item still returns the new entry.
C14_WriteFailureIsSwallowed ==
    [][/\ \A c \in Texts, w \in WriteFailures :
            (~Rejected(c, cfg) /\ AddItem(c, "text", Epoch, w))
            => /\ raised' = "none"
               /\ last'.ret = Ret(ClipboardItem(c, "text", Epoch))
       /\ \A w \in WriteFailures : ClearHistory(w) => raised' = "none"]_vars

\* An add_item whose write failed has returned its entry.
C14_Witness ==
    /\ last.op = "add_item"
    /\ ~last.saved
    /\ failures > 0
    /\ last.ret # NoRet
    /\ items # <<>> /\ last.ret = Ret(items[1])
    /\ file # JsonFile(Encode(items))

\* C15: get_items(limit) returns the first min(limit, length) entries in
\* most-recent-first order (all of them for None) as a new list: appending
\* to, removing from or reordering the returned list leaves the store's list
\* as it was.
C15_GetItemsReturnsFreshPrefix ==
    [][/\ \A limit \in Limits :
            GetItemsCall(limit)
            => view'.elems = IF limit = <<>> THEN items ELSE Take(items, limit[1])
       /\ \A m \in Mutations :
            MutateView(m) => (items' = items /\ file' = file)]_vars

\* The caller reversed the two-entry list it was given; the store kept its order.
C15_Witness ==
    /\ last.op = "mutate_view"
    /\ Len(items) = 2
    /\ view.elems = <<items[2], items[1]>>

\* Content that _should_exclude_content takes for a password when enabled.
PasswordLike(content) ==
    Len(content) < PasswordLength /\ HasPasswordSymbol(content)

\* The completion handler passed content on to add_item.
HandedToAddItem(content) ==
    /\ last'.op = "add_item"
    /\ items' = IF InvalidContent(content) THEN items
                ELSE AddedItems(items, content, "text", Epoch, max_items)

\* The completion handler left the store and the watcher as they were.
NothingRecorded == UNCHANGED <<items, file, last_content, idle>>

\* C16 as stated: with exclude_passwords enabled a read of password-like
\* content changes nothing and schedules no observer; with the setting
\* disabled the same content is handed to add_item.
C16_PasswordLikeExcludedOrAdded ==
    [][\A res \in ReadResults :
          (/\ res.ok
           /\ PasswordLike(res.content)
           /\ TextReady(res, Epoch))
          => IF exclude_passwords THEN NothingRecorded
             ELSE HandedToAddItem(res.content)]_vars

\* C16: with exclude_passwords enabled a read of password-like content
\* changes nothing and schedules no observer; with the setting disabled the
\* same content is handed to add_item when it differs from last_content.
C16_PasswordLikeExcludedOrAddedWhenNew ==
    [][\A res \in ReadResults :
          (/\ res.ok
           /\ PasswordLike(res.content)
           /\ TextReady(res, Epoch))
          => IF exclude_passwords THEN NothingRecorded
             ELSE (res.content # last_content => HandedToAddItem(res.content))]_vars

\* With the setting disabled a password-like text was recorded.
C16_Witness ==
    /\ ~exclude_passwords
    /\ last.op = "add_item"
    /\ last_content = TextPw
    /\ items # <<>> /\ items[1].content = TextPw

\* C17: a read completion that fails, returns empty content or returns
\* content equal to last_content leaves the history, the file and
\* last_content unchanged and schedules no observer.
C17_StaleReadChangesNothing ==
    [][\A res \in ReadResults :
          (/\ ~res.ok \/ res.content = <<>> \/ res.content = last_content
           /\ TextReady(res, Epoch))
          => NothingRecorded]_vars

\* A completion was ignored after a text had been recorded.
C17_Witness ==
    /\ last.op = "text_ready"
    /\ items # <<>>
    /\ last_content = items[1].content
    /\ inflight < MaxInflight

\* C18: a read completion in which add_item returned an entry schedules each
\* registered callback exactly once with that entry, and none has run when
\* the handler returns; when add_item returns nothing, none is scheduled.
C18_CallbacksScheduledOnce ==
    [][\A res \in ReadResults :
          TextReady(res, Epoch)
          => /\ last'.op # "callback"
             /\ IF last'.op = "add_item" /\ last'.ret # NoRet
                THEN idle' = idle \o [i \in 1..Len(callbacks) |->
                                         <<callbacks[i], last'.ret[1]>>]
                ELSE idle' = idle]_vars

\* Two callbacks are registered and both wait with the entry just recorded.
C18_Witness ==
    /\ last.op = "add_item"
    /\ last.ret # NoRet
    /\ Len(callbacks) = 2
    /\ idle = <<<<callbacks[1], last.ret[1]>>, <<callbacks[2], last.ret[1]>>>>

\* C19: a read that completes after stop_monitoring() has turned monitoring
\* off changes neither the history, the file nor last_content and notifies
\* no observer.
C19_ReadAfterStopIsIgnored ==
    [][\A res \in ReadResults :
          (~monitoring /\ TextReady(res, Epoch)) => NothingRecorded]_vars

\* C20: over any sequence of start and stop calls at most one 'changed'
\* handler is connected, so one clipboard change starts at most one read.
C20_AtMostOneChangedHandler == handlers <= 1

\* C21: last_content is written only by the read-completion handler, never
\* by a change notification; a completion hands its text to add_item only
\* when the text differs from last_content and then makes it last_content,
\* so of two reads in flight for the same new text the first records it and
\* notifies each observer once and the second does nothing.
C21_LastContentSetByCompletionOnly ==
    [][/\ ClipboardChanged => last_content' = last_content
       /\ last_content' # last_content
            => \E res \in ReadResults :
                  TextReady(res, Epoch) /\ last_content' = res.content
       /\ \A res \in ReadResults :
            (TextReady(res, Epoch) /\ res.ok /\ res.content = last_content)
            => UNCHANGED <<items, file, idle, last_content>>]_vars

\* Two reads were in flight; the text was recorded by the first completion
\* and the second one found it in last_content: one entry, one notification.
C21_Witness ==
    /\ last.op = "text_ready"
    /\ monitoring
    /\ inflight = 0
    /\ Len(items) = 1
    /\ last_content = items[1].content
    /\ idle = Scheduled(callbacks, items[1])

\* Some mechanism would put the text on the clipboard if it were run.
CanSucceed(m) == m.gtk = "ok" \/ m.wl = "ok" \/ m.xclip = "ok"

\* C22: set_clipboard_content tries the GTK provider, wl-copy and xclip in
\* that order, moving on whenever one fails, so the text is set whenever one
\* of the three can succeed; when all fail the failure is logged; nothing is
\* ever raised.
C22_FallbackReachesWorkingMechanism ==
    [][\A c \in {TextA, TextLong} :
          SetClipboardContentCall(c)
          => /\ raised' = "none"
             /\ CanSucceed(mech) => clip'.text = c
             /\ ~CanSucceed(mech) => (clip'.text = <<>> /\ clip'.logged)]_vars

\* Stopped, as the daemon's life cycle describes it.
Stopped ==
    /\ ~monitoring
    /\ ~popup
    /\ ~running
    /\ main_loop # "running"
    /\ run_pc = "returned"

\* C23: whenever a terminate or interrupt signal is delivered after run()
\* has called start(), the window before the main loop runs included, the
\* daemon eventually reaches Stopped.
C23_SignalLeadsToStopped ==
    [](last.op = "signal" /\ run_pc \in {"started", "created", "looping"}
        => <>Stopped)

\* C24: start() on a daemon that is already Running is a no-op: no further
\* handler is connected, no further read is issued, and running and
\* monitoring stay true.
C24_StartWhenRunningIsNoOp ==
    [][(running /\ DoDaemonStart)
          => /\ UNCHANGED <<handlers, inflight, last_content, idle>>
             /\ running' /\ monitoring']_vars

\* start() was called on a Running daemon whose priming read had completed.
C24_Witness ==
    /\ last.op = "start"
    /\ running /\ monitoring
    /\ handlers = 1
    /\ inflight = 0

\* C25: a reload issued while Running leaves running, monitoring, the change
\* subscription, last_content and the stored entries unchanged and sets the
\* store's max_items to the configuration's current max_history_items.
C25_ReloadKeepsDaemonAndSetsLimit ==
    [][(running /\ DoReloadSignal)
          => /\ UNCHANGED <<running, monitoring, handlers, inflight,
                            last_content, items, file>>
             /\ max_items' = cfg'.max_history_items]_vars

\* A Running daemon that had recorded an entry has reloaded a file that was
\* edited to give the limit as a string of digits.
C25_Witness ==
    /\ last.op = "reload_config"
    /\ running /\ monitoring
    /\ config_file = ConfigObject(Json("str", SchemaMin), "missing")
    /\ max_items = SchemaMin
    /\ Len(items) = 1
    /\ last_content = items[1].content

\* C28: a reload whose configuration file is invalid never stops or crashes
\* the daemon, and the store's max_items afterwards is within the schema's
\* range.
C28_InvalidReloadIsHarmless ==
    [][(running /\ InvalidConfigFile(config_file) /\ DoReloadSignal)
          => /\ running' /\ monitoring' = monitoring
             /\ UNCHANGED <<run_pc, main_loop>>
             /\ raised' = "none"
             /\ max_items' \in SchemaMin..SchemaMax]_vars

\* A Running daemon has reloaded a file whose value is out of range.
C28_Witness ==
    /\ last.op = "reload_config"
    /\ running
    /\ config_file = ConfigObject(Json("int", SchemaMax + 1), "missing")
    /\ max_items \in SchemaMin..SchemaMax

\* C26: if the watcher's stop or the popup's cleanup raises during stop(),
\* stop() does not propagate the error and the main loop is still asked to
\* quit.
C26_StopQuitsLoopDespiteFailure ==
    [][\A outcome \in StopOutcomes \ {"ok"} :
          (/\ running /\ main_loop = "running"
           /\ outcome = "monitor_raises" \/ popup
           /\ SignalStop(outcome)
           /\ last'.op = "signal_stop_fails")
              => (raised' = "none" /\ main_loop' = "quit")]_vars

\* C27: on every path by which run() returns or raises, stop() has been
\* executed first: running and monitoring are false and the loop is not
\* running; the loop's exception reaches the caller on the raising path only.
C27_StopBeforeRunEnds ==
    run_pc \in {"returned", "raised"}
        => /\ ~running
           /\ ~monitoring
           /\ main_loop # "running"
           /\ (run_pc = "raised") <=> (raised = "Exception")

\* run() has raised the loop's exception after a text had been recorded.
C27_Witness ==
    /\ run_pc = "raised"
    /\ last.op = "run_raised"
    /\ raised = "Exception"
    /\ ~running /\ ~monitoring
    /\ Len(items) = 1

\* C29: for any interleaving of two processes that each start the daemon
\* against the same marker, each performing the liveness check and then the
\* marker write of create(), at most one of them ends up running; the other
\* is refused.
C29_AtMostOneRunning ==
    \A p, q \in Pids :
        (/\ procs[p].pc = "running" /\ procs[p].created
         /\ procs[q].pc = "running" /\ procs[q].created) => p = q

\* C30: while the daemon is Running the process marker records the daemon's
\* own process identifier, and after a clean shutdown the marker is absent.
C30_MarkerFollowsDaemon ==
    \A p \in Pids :
        /\ procs[p].pc = "running" => marker = p
        /\ (procs[p].pc = "stopped" /\ \A q \in Pids : ~Live(q))
              => marker = NoMarker

\* C31: create() raises the already-running error naming the recorded
\* identifier and leaves the marker unchanged exactly when the marker records
\* a live process (the caller itself included); in every other case it
\* succeeds and the marker then holds the caller's identifier.
C31_CreateRefusesExactlyLiveMarker ==
    [][\A p \in Pids :
          /\ (CreateCheck(p) /\ last'.op = "create_check")
                => IF Exists(GetPid(marker))
                   THEN /\ raised' = "PidManagerError"
                        /\ last'.ret = Ret(GetPid(marker))
                        /\ marker' = marker
                        /\ procs'[p].pc # "checked"
                   ELSE /\ raised' = "none"
                        /\ procs'[p].pc = "checked"
          /\ CreateWrite(p) => (marker' = p /\ raised' = "none")]_vars

\* C32: is_running() returns true if and only if the marker holds the
\* identifier of a process that exists, and it removes the marker only when
\* that process no longer exists.
C32_IsRunningIffProcessExists ==
    [][(IsRunningCall /\ last'.op = "is_running")
          => /\ last'.ret = Ret(Exists(GetPid(marker)))
             /\ marker' # marker => ~Exists(GetPid(marker))]_vars

\* C33: stop_process never sends the forced-termination request before the
\* graceful one, and sends it only if the target was seen alive at every
\* poll of the timeout window; a target seen gone at a poll is reported
\* stopped without any forced-termination request.
C33_ForcedOnlyAfterEveryPoll ==
    /\ stopper.kill => (stopper.term /\ stopper.polls = stopper.timeout)
    /\ (stopper.pc = "done" /\ stopper.term /\ stopper.polls < stopper.timeout)
          => (stopper.ret /\ ~stopper.kill)

\* The target exited after the first of two polls: stop_process returned
\* True and sent no forced request.
C33_Witness ==
    /\ stopper.pc = "done"
    /\ stopper.term
    /\ stopper.timeout = MaxTimeout
    /\ stopper.polls = 1
    /\ stopper.ret /\ ~stopper.kill

\* C34: stop_process returns true exactly when the target process is no
\* longer alive at return.
C34_ReturnsTrueIffTargetGone ==
    [][(stopper.pc # "done" /\ stopper'.pc = "done")
          => (stopper'.ret <=> ~Exists(stopper'.pid))]_vars

\* C35: while exclude_passwords is enabled, the history holds no
\* password-like content, whether the watcher or the popup's priming read
\* saw it on the clipboard.
C35_NoPasswordLikeContentInHistory ==
    exclude_passwords =>
        \A i \in 1..Len(items) : ~PasswordLike(items[i].content)

\* C36: at most one auto-hide timer is pending, and hide_timer is None or
\* the handle of that pending timer.
C36_AtMostOnePendingHideTimer ==
    /\ Cardinality(timers) <= 1
    /\ hide_timer # <<>> => timers = {hide_timer[1]}

\* A second show replaced the timer of the first one.
C36_Witness ==
    /\ popup
    /\ next_source > 2
    /\ hide_timer = <<next_source - 1>>
    /\ timers = {next_source - 1}

\* C37: between daemon operations the status snapshot reports running and
\* monitoring with the same value.
C37_StatusRunningEqualsMonitoring ==
    GetStatus.running = GetStatus.monitoring

\* A daemon that was started and then stopped reports neither.
C37_Witness ==
    /\ handlers > 0
    /\ ~GetStatus.running
    /\ ~GetStatus.monitoring

\* C38: when the watcher finishes a read while monitoring and the content
\* is valid and not excluded, the entry at index 0 of the history has that
\* content afterwards, also after the history was cleared.
C38_ValidReadBecomesNewestEntry ==
    [][\A res \in ReadResults :
          (/\ monitoring
           /\ res.ok
           /\ ~InvalidContent(res.content)
           /\ ~ShouldExcludeContent(res.content, exclude_passwords)
           /\ TextReady(res, Epoch)
           /\ last'.op \in {"add_item", "text_ready"})
          => (items' # <<>> /\ items'[1].content = res.content)]_vars

\* The entries of its other than the one with item's content and type.
OtherEntries(its, item) ==
    SelectSeq(its, LAMBDA e : ~(/\ e.content = item.content
                                /\ e.content_type = item.content_type))

====
